---- MODULE Spec2Model ----
(***************************************************************************)
(* Model of offshore's attribute transformer (core/transformations.js) and *)
(* of the record-creation pipeline (query/dql/create.js).                  *)
(*                                                                         *)
(* JavaScript values are encoded as records of one shape,                  *)
(*   [t |-> tag, n |-> number, s |-> text, o |-> <<[k, v], ...>>]          *)
(* so that objects keep their key order (the code renames keys in place,   *)
(* one after the other, over a key list taken before the loop).            *)
(***************************************************************************)
EXTENDS Integers, Sequences, FiniteSets, TLC

\* ------------------------------------------------------------------------
\* JavaScript values
\* ------------------------------------------------------------------------
Undef == [t |-> "undef", n |-> 0, s |-> "", o |-> <<>>]
Num(i) == [t |-> "num", n |-> i, s |-> "", o |-> <<>>]
Str(x) == [t |-> "str", n |-> 0, s |-> x, o |-> <<>>]
\* new Date(text): a date value, no longer a text
DateOf(x) == [t |-> "date", n |-> 0, s |-> x, o |-> <<>>]
Obj(pairs) == [t |-> "obj", n |-> 0, s |-> "", o |-> pairs]
Arr(pairs) == [t |-> "arr", n |-> 0, s |-> "", o |-> pairs]
KV(key, val) == [k |-> key, v |-> val]

\* _.keys(obj), in the object's own key order
Keys(x) == [i \in 1..Len(x.o) |-> x.o[i].k]
KeySet(x) == {x.o[i].k : i \in 1..Len(x.o)}
\* hasOwnProperty(obj, key)
Has(x, key) == key \in KeySet(x)
\* obj[key]
Get(x, key) ==
  IF Has(x, key)
    THEN x.o[CHOOSE i \in 1..Len(x.o) : x.o[i].k = key].v
    ELSE Undef
\* delete obj[key]
Del(x, key) == [x EXCEPT !.o = SelectSeq(x.o, LAMBDA p : p.k # key)]
\* obj[key] = val: an existing key keeps its place, a new key goes last
Set(x, key, val) ==
  IF Has(x, key)
    THEN [x EXCEPT !.o = [i \in 1..Len(x.o) |->
                           IF x.o[i].k = key THEN KV(key, val) ELSE x.o[i]]]
    ELSE [x EXCEPT !.o = Append(x.o, KV(key, val))]
\* JavaScript truthiness of a value
Truthy(x) ==
  CASE x.t = "undef" -> FALSE
    [] x.t = "num" -> x.n # 0
    [] x.t = "str" -> x.s # ""
    [] OTHER -> TRUE
\* two objects with the same keys and the same value under each key
SameObject(x, y) ==
  /\ x.t = y.t
  /\ KeySet(x) = KeySet(y)
  /\ Len(x.o) = Cardinality(KeySet(x))
  /\ Len(y.o) = Cardinality(KeySet(y))
  /\ \A key \in KeySet(x) : Get(x, key) = Get(y, key)

\* ------------------------------------------------------------------------
\* Attribute declarations
\* ------------------------------------------------------------------------
\* kind: "obj" (a declaration object), "str" (a shorthand type), "fn" (an
\* instance method).  col: the columnName override, colKind "none" when the
\* declaration has none, "bad" when it is not a string.
Decl(kind, type, colKind, col, model, collection, hasDefault, defaultsTo) ==
  [kind |-> kind, type |-> type, colKind |-> colKind, col |-> col,
   model |-> model, collection |-> collection, hasDefault |-> hasDefault,
   defaultsTo |-> defaultsTo]
NoDecl == Decl("none", "", "none", "", "", "", FALSE, Undef)
\* the usual shapes of a declaration
TypeDecl(type) == Decl("obj", type, "none", "", "", "", FALSE, Undef)
ColumnDecl(type, col) == Decl("obj", type, "str", col, "", "", FALSE, Undef)
\* attribute declarations are an ordered object too: <<[k, d], ...>>
AD(key, decl) == [k |-> key, d |-> decl]
DeclNames(decls) == {decls[i].k : i \in 1..Len(decls)}
DeclOf(decls, key) ==
  IF key \in DeclNames(decls)
    THEN decls[CHOOSE i \in 1..Len(decls) : decls[i].k = key].d
    ELSE NoDecl

\* ------------------------------------------------------------------------
\* State
\* ------------------------------------------------------------------------
VARIABLES
  attributes,       \* Transformation: self.attributes
  transformations,  \* Transformation: self._transformations
  tpc,              \* transformer scenario: position
  tin,              \* transformer scenario: the value handed to serialize
  tmode,            \* transformer scenario: the behavior argument
  tser,             \* transformer scenario: result of serialize
  tout,             \* transformer scenario: result of unserialize
  pc,               \* create: the suspension point the call is at
  onDone,           \* create: "fn" when a completion callback was given
  metaContainer,    \* create: the context argument
  input,            \* create: the values object as the caller built it
  valuesObject,     \* create: the caller's values, then { values, associations }
  pending,          \* createBelongsTo: queries dispatched, not yet called back
  completed,        \* async.each: iterators started and not finished
  eachDone,         \* async.each: the final callback has been called (_once)
  created,          \* createValues: the values the adapter called back with
  calls,            \* every call made to a collaborator or to the adapter
  raised,           \* every error a collaborator or the adapter called back with
  delivered,        \* every invocation of the caller's callback
  rows,             \* storage: the rows that exist
  nextPk            \* storage: the next primary key it assigns

tvars == <<attributes, transformations, tpc, tin, tmode, tser, tout>>
cvars == <<pc, onDone, metaContainer, input, valuesObject, pending,
           completed, eachDone, created, calls, raised, delivered, rows, nextPk>>
vars == <<attributes, transformations, tpc, tin, tmode, tser, tout,
          pc, onDone, metaContainer, input, valuesObject, pending,
          completed, eachDone, created, calls, raised, delivered, rows, nextPk>>

\* ------------------------------------------------------------------------
\* Transformation.prototype.initialize
\* ------------------------------------------------------------------------
\* a columnName that is not a string makes the constructor throw
InitializeThrows(decls) ==
  \E i \in 1..Len(decls) : decls[i].d.kind = "obj" /\ decls[i].d.colKind = "bad"

RECURSIVE InitializeFrom(_, _, _)
InitializeFrom(decls, i, acc) ==
  IF i > Len(decls) THEN acc
  ELSE LET attr == decls[i].k
           d == decls[i].d
       IN IF d.kind # "obj" THEN InitializeFrom(decls, i + 1, acc)
          ELSE IF d.colKind # "str" THEN InitializeFrom(decls, i + 1, acc)
          ELSE IF attr = d.col THEN InitializeFrom(decls, i + 1, acc)
          ELSE InitializeFrom(decls, i + 1, Set(acc, attr, Str(d.col)))

Initialize(decls) == InitializeFrom(decls, 1, Obj(<<>>))

\* ------------------------------------------------------------------------
\* Transformation.prototype.serialize
\* ------------------------------------------------------------------------
\* self._transformations[name], as a text
Column(name) == Get(transformations, name).s

\* parentAttr = self.attributes[property]
\*              || self.attributes[self._transformations[property]] || parentAttr
DetectAttribute(property, parentAttr) ==
  IF DeclOf(attributes, property) # NoDecl THEN DeclOf(attributes, property)
  ELSE IF Has(transformations, property)
          /\ DeclOf(attributes, Column(property)) # NoDecl
    THEN DeclOf(attributes, Column(property))
  ELSE parentAttr

\* type = parentAttr ? parentAttr.type || parentAttr : null
TypeOf(parentAttr) ==
  IF parentAttr = NoDecl THEN "null"
  ELSE IF parentAttr.kind \in {"obj", "str"} /\ parentAttr.type # ""
    THEN parentAttr.type
  ELSE "object"

\* type !== 'json' && _.isPlainObject(obj[property])
NestedWhateverType(type, val) == val.t = "obj"
IsNestedObject(type, val) == type # "json" /\ val.t = "obj"

RECURSIVE recursiveSerialize(_, _)
RECURSIVE SerializeKeys(_, _, _, _)

\* one turn of the forEach over the keys taken before the loop; parentAttr
\* is the enclosing call's parameter, so an assignment made for one key is
\* still there for the next
SerializeKeys(obj, keys, i, parentAttr) ==
  IF i > Len(keys) THEN obj
  ELSE
    LET property == keys[i]
    IN IF ~Has(obj, property) THEN SerializeKeys(obj, keys, i + 1, parentAttr)
       ELSE
         LET pa == DetectAttribute(property, parentAttr)
             type == TypeOf(pa)
             val == Get(obj, property)
             mapped == Has(transformations, property)
             col == Column(property)
         IN IF val.t = "arr" /\ property \in {"or", "and"}
              THEN SerializeKeys(Set(obj, property, recursiveSerialize(val, pa)),
                                 keys, i + 1, pa)
            ELSE IF IsNestedObject(type, val)
              THEN IF mapped
                     THEN SerializeKeys(
                            Set(Del(Set(obj, col, val), property), col,
                                recursiveSerialize(val, pa)),
                            keys, i + 1, pa)
                     ELSE SerializeKeys(
                            Set(obj, property, recursiveSerialize(val, pa)),
                            keys, i + 1, pa)
            ELSE
              LET renamed == IF mapped THEN Set(Del(obj, property), col, val)
                             ELSE obj
                  prop == IF mapped THEN col ELSE property
                  cur == Get(renamed, prop)
                  cast == IF cur.t = "str" /\ type \in {"date", "datetime"}
                            THEN Set(renamed, prop, DateOf(cur.s))
                            ELSE renamed
              IN SerializeKeys(cast, keys, i + 1, pa)

\* the nested function of serialize; the text case (values = mapped column)
\* only matters at the top level and is in SerializeValue
recursiveSerialize(obj, parentAttr) ==
  IF ~Truthy(obj) THEN obj
  ELSE IF obj.t \in {"obj", "arr"}
    THEN SerializeKeys(obj, Keys(obj), 1, parentAttr)
  ELSE obj

\* serialize, default mode: recursiveSerialize(values); return values
SerializeValue(values) ==
  IF values.t = "str"
    THEN IF Has(transformations, values.s) THEN Str(Column(values.s)) ELSE values
    ELSE recursiveSerialize(values, NoDecl)

\* serialize, behavior === 'schema': the first level only
RECURSIVE SerializeSchemaKeys(_, _, _)
SerializeSchemaKeys(schema, keys, i) ==
  IF i > Len(keys) THEN schema
  ELSE LET property == keys[i]
       IN IF Has(transformations, property)
            THEN SerializeSchemaKeys(
                   Del(Set(schema, Column(property), Get(schema, property)),
                       property),
                   keys, i + 1)
            ELSE SerializeSchemaKeys(schema, keys, i + 1)

SerializeSchema(schema) == SerializeSchemaKeys(schema, Keys(schema), 1)

\* criteria.<list>.forEach: self._transformations[name] replaces the name
RenameList(list) ==
  IF list.t # "arr" THEN list
  ELSE [list EXCEPT !.o = [i \in 1..Len(list.o) |->
          IF list.o[i].v.t = "str" /\ Truthy(Get(transformations, list.o[i].v.s))
            THEN KV(list.o[i].k, Get(transformations, list.o[i].v.s))
            ELSE list.o[i]]]

\* criteria.sort: move the value under the column name, delete the old key
RECURSIVE RenameSortKeys(_, _, _)
RenameSortKeys(sort, keys, i) ==
  IF i > Len(keys) THEN sort
  ELSE LET order == keys[i]
       IN IF Truthy(Get(transformations, order))
            THEN RenameSortKeys(
                   Del(Set(sort, Column(order), Get(sort, order)), order),
                   keys, i + 1)
            ELSE RenameSortKeys(sort, keys, i + 1)

RenameSort(sort) ==
  IF sort.t \in {"obj", "arr"} THEN RenameSortKeys(sort, Keys(sort), 1) ELSE sort

ListFields == <<"select", "sum", "average", "min", "max", "groupBy">>

RECURSIVE RenameLists(_, _)
RenameLists(criteria, i) ==
  IF i > Len(ListFields) THEN criteria
  ELSE LET f == ListFields[i]
       IN IF Truthy(Get(criteria, f))
            THEN RenameLists(Set(criteria, f, RenameList(Get(criteria, f))), i + 1)
            ELSE RenameLists(criteria, i + 1)

\* serialize, criteria mode
SerializeCriteria(criteria) ==
  LET c1 == RenameLists(criteria, 1)
      c2 == IF Truthy(Get(c1, "sort"))
              THEN Set(c1, "sort", RenameSort(Get(c1, "sort")))
              ELSE c1
      where == Get(c2, "where")
  IN IF Truthy(where) /\ where.t # "str"
       THEN Set(c2, "where", recursiveSerialize(where, NoDecl))
       ELSE c2

\* Transformation.prototype.serialize(attributes, behavior)
Serialize(values, behavior) ==
  IF behavior = "undefined" /\ values.t # "str" /\ Get(values, "where") # Undef
    THEN SerializeCriteria(values)
  ELSE IF behavior = "schema" THEN SerializeSchema(values)
  ELSE SerializeValue(values)

\* the text case assigning to the map instead of reading it
MapWrittenBySerialize(map, values) ==
  IF values.t = "str" THEN Set(map, values.s, values) ELSE map
\* self._transformations after a call of serialize: the function only reads
\* the map (self._transformations[...] is never the target of an assignment
\* or a delete)
MapAfterSerialize(map, values) == map

\* ------------------------------------------------------------------------
\* Transformation.prototype.unserialize
\* ------------------------------------------------------------------------
\* reads the row it was given, writes the clone
RECURSIVE UnserializeKeys(_, _, _, _)
UnserializeKeys(row, values, keys, i) ==
  IF i > Len(keys) THEN values
  ELSE LET key == keys[i]
           transformed == Column(key)
       IN IF ~Has(row, transformed)
            THEN UnserializeKeys(row, values, keys, i + 1)
            ELSE UnserializeKeys(
                   row,
                   IF transformed # key
                     THEN Del(Set(values, key, Get(row, transformed)), transformed)
                     ELSE Set(values, key, Get(row, transformed)),
                   keys, i + 1)

Unserialize(row) == UnserializeKeys(row, row, Keys(transformations), 1)


\* ------------------------------------------------------------------------
\* The collection the create calls are made on
\* ------------------------------------------------------------------------
\* number of belongsTo attributes the collection declares
NumBelongsTo == 2

BelongsToPool ==
  <<[attr |-> "owner", model |-> "user", col |-> "owner_id"],
    [attr |-> "group", model |-> "team", col |-> ""],
    [attr |-> "editor", model |-> "person", col |-> "editor_id"]>>
BelongsToAttrs == {BelongsToPool[i].attr : i \in 1..NumBelongsTo}
BelongsToDecl(b) ==
  Decl("obj", "", IF b.col = "" THEN "none" ELSE "str", b.col, b.model, "",
       FALSE, Undef)

\* this.identity
Identity == "thing"
\* model.primaryKey of every collection
PrimaryKey == "id"
\* this.autoCreatedAt, this.autoUpdatedAt
AutoCreatedAt == "createdAt"
AutoUpdatedAt == "updatedAt"
\* new Date()
Now == DateOf("now")

\* this.attributes of the collection
CollectionAttributes ==
  <<AD("id", TypeDecl("integer")),
    AD("name", Decl("obj", "string", "none", "", "", "", TRUE, Str("anon")))>>
  \o [i \in 1..NumBelongsTo |->
        AD(BelongsToPool[i].attr, BelongsToDecl(BelongsToPool[i]))]
  \o <<AD("items", Decl("obj", "", "none", "", "", "item", FALSE, Undef)),
       AD("createdAt", TypeDecl("datetime")),
       AD("updatedAt", TypeDecl("datetime"))>>

\* the context values a caller passes
Contexts == {"undefined", "ctx"}
\* what a caller puts under a belongsTo attribute
PayloadKinds == {"absent", "fk", "object", "objectPk", "objectPk0"}
Payload(kind) ==
  CASE kind = "fk" -> Num(5)
    [] kind = "object" -> Obj(<<KV("email", Str("e"))>>)
    [] kind = "objectPk" -> Obj(<<KV(PrimaryKey, Num(7)), KV("email", Str("e"))>>)
    [] kind = "objectPk0" -> Obj(<<KV(PrimaryKey, Num(0)), KV("email", Str("e"))>>)
    [] OTHER -> Undef

RECURSIVE BelongsToInput(_, _)
BelongsToInput(kinds, i) ==
  IF i > NumBelongsTo THEN <<>>
  ELSE LET attr == BelongsToPool[i].attr
       IN (IF kinds[attr] = "absent" THEN <<>>
           ELSE <<KV(attr, Payload(kinds[attr]))>>) \o BelongsToInput(kinds, i + 1)

\* the values object of one call
BuildInput(nameGiven, kinds, itemsGiven) ==
  Obj((IF nameGiven THEN <<KV("name", Str("n"))>> ELSE <<>>)
      \o BelongsToInput(kinds, 1)
      \o (IF itemsGiven
            THEN <<KV("items", Arr(<<KV("0", Obj(<<KV("label", Str("l"))>>))>>))>>
            ELSE <<>>))

\* ------------------------------------------------------------------------
\* create.js: processValues
\* ------------------------------------------------------------------------
RECURSIVE ApplyDefaults(_, _)
ApplyDefaults(vals, i) ==
  IF i > Len(attributes) THEN vals
  ELSE LET key == attributes[i].k
           d == attributes[i].d
       IN IF (~Has(vals, key) \/ Get(vals, key) = Undef) /\ d.hasDefault
            THEN ApplyDefaults(Set(vals, key, d.defaultsTo), i + 1)
            ELSE ApplyDefaults(vals, i + 1)

\* nestedOperations.valuesParser: the payloads found under association
\* attributes, belongsTo ones in models, hasMany ones in collections
ValuesParser(vals) ==
  [models |-> Obj(SelectSeq(vals.o,
                  LAMBDA p : DeclOf(attributes, p.k).model # "")),
   collections |-> Obj(SelectSeq(vals.o,
                  LAMBDA p : DeclOf(attributes, p.k).collection # ""))]

\* the placeholder left where a belongsTo payload has no primary key
Placeholder == Undef

\* nestedOperations.reduceAssociations: a belongsTo payload becomes its
\* foreign key when it carries one, a placeholder otherwise
ReduceAssociations(vals) ==
  [vals EXCEPT !.o = [i \in 1..Len(vals.o) |->
     LET p == vals.o[i]
     IN IF DeclOf(attributes, p.k).model # "" /\ p.v.t = "obj"
          THEN IF Has(p.v, PrimaryKey)
                 THEN KV(p.k, Get(p.v, PrimaryKey))
                 ELSE KV(p.k, Placeholder)
          ELSE p]]

\* this._cast.run: a numeric text under an integer attribute becomes a number
NumericText == [s \in {"5", "7"} |-> IF s = "5" THEN 5 ELSE 7]
CastRun(vals) ==
  [vals EXCEPT !.o = [i \in 1..Len(vals.o) |->
     LET p == vals.o[i]
     IN IF DeclOf(attributes, p.k).type = "integer" /\ p.v.t = "str"
           /\ p.v.s \in DOMAIN NumericText
          THEN KV(p.k, Num(NumericText[p.v.s]))
          ELSE p]]

processValues(vals) ==
  LET withDefaults == ApplyDefaults(vals, 1)
  IN [values |-> CastRun(ReduceAssociations(withDefaults)),
      associations |-> ValuesParser(withDefaults)]

\* ------------------------------------------------------------------------
\* Calls, errors, rows
\* ------------------------------------------------------------------------
Call(to, op, item, ctx, vals) ==
  [to |-> to, op |-> op, item |-> item, ctx |-> ctx, vals |-> vals]
Err(step, item, model) == [step |-> step, item |-> item, model |-> model]
NoErr == Err("", "", "")
\* new self._model(values)
Model(vals) == [vals EXCEPT !.t = "model"]
Delivery(err, model) == [err |-> err, model |-> model]
Row(coll, pk, op, vals) == [coll |-> coll, pk |-> pk, op |-> op, vals |-> vals]


\* ------------------------------------------------------------------------
\* create.js: createBelongsTo
\* ------------------------------------------------------------------------
\* the column an attribute is stored under
ColumnOfDecl(key, d) == IF d.kind = "obj" /\ d.colKind = "str" THEN d.col ELSE key
\* self._schema.schema[attrName]: the schema is keyed by column name
SchemaAttribute(attrName) ==
  IF \E i \in 1..Len(attributes) :
       ColumnOfDecl(attributes[i].k, attributes[i].d) = attrName
    THEN attributes[CHOOSE i \in 1..Len(attributes) :
           ColumnOfDecl(attributes[i].k, attributes[i].d) = attrName].d
    ELSE NoDecl

\* modelName of the attribute an item is declared by
ModelName(item) ==
  LET attrName == IF Has(transformations, item) THEN Column(item) ELSE item
      attribute == SchemaAttribute(attrName)
  IN IF attribute.model # "" THEN attribute.model ELSE attribute.collection

\* the iterator goes on to build a query for this item
Resolves(models, item) ==
  /\ Get(models, item).t = "obj"
  /\ ModelName(item) # ""

\* findOrCreate when the payload has a (truthy) primary key, create otherwise
QueryOp(payload) ==
  IF Truthy(Get(payload, PrimaryKey)) THEN "findOrCreate" ELSE "create"

\* if (metaContainer) query.meta(metaContainer)
QueryMeta(meta) == IF meta # "undefined" THEN meta ELSE "undefined"

RECURSIVE CreateBelongsToQueries(_, _, _)
\* every query issued a second time
QueriesIssuedTwice(models, i, meta) ==
  LET resolving == SelectSeq(models.o, LAMBDA p : Resolves(models, p.k))
      queries == [j \in 1..Len(resolving) |->
                    Call(ModelName(resolving[j].k), QueryOp(resolving[j].v),
                         resolving[j].k, QueryMeta(meta), resolving[j].v)]
  IN queries \o queries
\* the queries async.each starts, in key order; meta is createBelongsTo's
\* third parameter
CreateBelongsToQueries(models, i, meta) ==
  IF i > Len(models.o) THEN <<>>
  ELSE LET item == models.o[i].k
       IN (IF Resolves(models, item)
             THEN <<Call(ModelName(item), QueryOp(models.o[i].v), item,
                         QueryMeta(meta), models.o[i].v)>>
             ELSE <<>>) \o CreateBelongsToQueries(models, i + 1, meta)

\* what create passes as createBelongsTo's third argument: the call is
\* createBelongsTo.call(this, valuesObject, function(err) {...}), two arguments
BelongsToMetaArgument(meta) == "undefined"

\* the final callback without _once
OnceDropped(done) == TRUE
\* async.each: callback = _once(callback)
Once(done) == ~done
\* the final callback fired by any iterator that finishes
EachFinishedEarly(remaining) == TRUE
\* async.each, done(): the last iterator has finished
EachFinished(remaining) == remaining <= 0

\* callbacks.validate(self, valuesObject.values, false, cb)
ValidateCall(vals) == Call("hooks", "validate", "", "undefined", vals)
\* callbacks.beforeCreate(self, valuesObject.values, cb)
BeforeCreateCall(vals) == Call("hooks", "beforeCreate", "", "undefined", vals)
\* callbacks.afterCreate(self, values, cb)
AfterCreateCall(vals) == Call("hooks", "afterCreate", "", "undefined", vals)
\* nestedOperations.create.call(self, parentModel, collections, cb)
LinkCall(collections) == Call("nestedOperations", "create", "", "undefined", collections)
\* self.adapter._loadQuery(self._query).create(values, cb, metaContainer)
AdapterCall(vals, meta) == Call("adapter", "create", "", meta, vals)

\* ------------------------------------------------------------------------
\* create.js: module.exports, from processValues on
\* ------------------------------------------------------------------------
StartCreate(vals, meta) ==
  LET vo == processValues(vals)
      queries == CreateBelongsToQueries(vo.associations.models, 1,
                                        BelongsToMetaArgument(meta))
  IN /\ valuesObject' = vo
     /\ pending' = {queries[i].item : i \in 1..Len(queries)}
     /\ completed' = Len(queries)
     /\ IF Len(queries) = 0
          THEN /\ eachDone' = TRUE
               /\ calls' = Append(calls, ValidateCall(vo.values))
               /\ pc' = "validate"
          ELSE /\ eachDone' = FALSE
               /\ calls' = calls \o queries
               /\ pc' = "belongsTo"
     /\ UNCHANGED <<created, raised, delivered, rows, nextPk>>

\* the pipeline started whether or not a callback was given
NeverDeferred(cbGiven) == FALSE
\* if (typeof cb !== 'function') return new Deferred(...)
ReturnsDeferred(cbGiven) == ~cbGiven

\* create(values, cb, metaContainer) with a single values object; an array
\* of values is handed to createEach and is not followed here
Create(nameGiven, kinds, itemsGiven, cbGiven, meta) ==
  /\ pc = "start"
  /\ input' = BuildInput(nameGiven, kinds, itemsGiven)
  /\ metaContainer' = meta
  /\ onDone' = IF cbGiven THEN "fn" ELSE "none"
  /\ IF ReturnsDeferred(cbGiven)
       THEN /\ pc' = "deferred"
            /\ valuesObject' = [valuesObject EXCEPT !.values = input']
            /\ UNCHANGED <<pending, completed, eachDone, created, calls,
                           raised, delivered, rows, nextPk>>
       ELSE StartCreate(input', meta)
  /\ UNCHANGED tvars

\* Deferred.exec(cb): the handle runs create again, now with the callback
\* (create takes the values and the callback from the handle's arguments)
ExecHandle ==
  /\ pc = "deferred"
  /\ onDone' = "fn"
  /\ StartCreate(valuesObject.values, metaContainer)
  /\ UNCHANGED <<input, metaContainer>>
  /\ UNCHANGED tvars

\* if (err) return next(err)                       (createBelongsTo)
QueryFailed(ok) == ~ok
\* the resolved primary key not written back
AttachPkForgotten(vals, item, pk) == vals
\* valuesObject.values[item] = val[model.primaryKey]
AttachPk(vals, item, pk) == Set(vals, item, pk)

\* query.exec(function(err, val) {...}) of one belongsTo item
BelongsToDone(item, ok) ==
  /\ item \in pending
  /\ pending' = pending \ {item}
  /\ completed' = completed - 1
  /\ LET payload == Get(valuesObject.associations.models, item)
         op == QueryOp(payload)
         pk == IF op = "findOrCreate" THEN Get(payload, PrimaryKey) ELSE Num(nextPk)
         err == Err("belongsTo", item, "")
     IN /\ raised' = IF ok THEN raised ELSE Append(raised, err)
        /\ rows' = IF ok THEN rows \cup {Row(ModelName(item), pk.n, op, payload)}
                   ELSE rows
        /\ nextPk' = IF ok /\ op = "create" THEN nextPk + 1 ELSE nextPk
        /\ IF QueryFailed(ok)
             THEN /\ IF Once(eachDone)
                       THEN /\ eachDone' = TRUE
                            /\ delivered' = Append(delivered, Delivery(err, Undef))
                            /\ pc' = "done"
                       ELSE UNCHANGED <<eachDone, delivered, pc>>
                  /\ UNCHANGED <<valuesObject, calls>>
             ELSE /\ valuesObject' =
                       [valuesObject EXCEPT !.values = AttachPk(@, item, pk)]
                  /\ IF EachFinished(completed') /\ Once(eachDone)
                       THEN /\ eachDone' = TRUE
                            /\ calls' = Append(calls,
                                 ValidateCall(valuesObject'.values))
                            /\ pc' = "validate"
                       ELSE UNCHANGED <<eachDone, calls, pc>>
                  /\ UNCHANGED delivered
  /\ UNCHANGED <<onDone, metaContainer, input, created>>
  /\ UNCHANGED tvars

\* ------------------------------------------------------------------------
\* create.js: beforeCallbacks
\* ------------------------------------------------------------------------
\* a series that goes on after an error
SeriesGoesOn(ok) == FALSE
\* async.series: an error from validate skips beforeCreate
SeriesStops(ok) == ~ok

\* the callback of callbacks.validate; async.series goes on to beforeCreate
ValidateDone(ok) ==
  /\ pc = "validate"
  /\ raised' = IF ok THEN raised ELSE Append(raised, Err("validate", "", ""))
  /\ IF SeriesStops(ok)
       THEN /\ delivered' = Append(delivered, Delivery(Err("validate", "", ""), Undef))
            /\ pc' = "done"
            /\ UNCHANGED calls
       ELSE /\ calls' = Append(calls, BeforeCreateCall(valuesObject.values))
            /\ pc' = "beforeCreate"
            /\ UNCHANGED delivered
  /\ UNCHANGED <<onDone, metaContainer, input, valuesObject, pending, completed,
                 eachDone, created, rows, nextPk>>
  /\ UNCHANGED tvars

\* ------------------------------------------------------------------------
\* create.js: createValues
\* ------------------------------------------------------------------------
\* this._model.globalId
GlobalId == "Thing"

\* Automatically add updatedAt and createdAt (if enabled)
Stamp(vals) ==
  LET v1 == IF AutoCreatedAt # "" /\ ~Truthy(Get(vals, AutoCreatedAt))
              THEN Set(vals, AutoCreatedAt, Now) ELSE vals
  IN IF AutoUpdatedAt # "" /\ ~Truthy(Get(v1, AutoUpdatedAt))
       THEN Set(v1, AutoUpdatedAt, Now) ELSE v1

\* self._schema.cleanValues: only the columns of the adapter-facing schema stay
SchemaColumns ==
  {ColumnOfDecl(attributes[i].k, attributes[i].d) :
     i \in {j \in 1..Len(attributes) : attributes[j].d.collection = ""}}
CleanValues(vals) ==
  [vals EXCEPT !.o = SelectSeq(vals.o, LAMBDA p : p.k \in SchemaColumns)]

\* the values createValues hands to the adapter
AdapterValues(vals) == CleanValues(Serialize(Stamp(vals), "undefined"))

\* the before-callbacks' error ignored
BeforeErrorIgnored(ok) == FALSE
\* if (err) return cb(err)          (the callback given to beforeCallbacks)
BeforeFailed(ok) == ~ok

\* the callback of callbacks.beforeCreate; on success createValues runs up
\* to the adapter call
BeforeCreateDone(ok) ==
  /\ pc = "beforeCreate"
  /\ raised' = IF ok THEN raised ELSE Append(raised, Err("beforeCreate", "", ""))
  /\ IF BeforeFailed(ok)
       THEN /\ delivered' = Append(delivered,
                 Delivery(Err("beforeCreate", "", ""), Undef))
            /\ pc' = "done"
            /\ UNCHANGED <<valuesObject, calls>>
       ELSE /\ valuesObject' =
                 [valuesObject EXCEPT !.values = AdapterValues(@)]
            /\ calls' = Append(calls,
                 AdapterCall(valuesObject'.values, metaContainer))
            /\ pc' = "adapter"
            /\ UNCHANGED delivered
  /\ UNCHANGED <<onDone, metaContainer, input, pending, completed, eachDone,
                 created, rows, nextPk>>
  /\ transformations' = MapAfterSerialize(transformations, valuesObject.values)
  /\ UNCHANGED <<attributes, tpc, tin, tmode, tser, tout>>

\* if (err) { err.model = ...; return cb(err); }     (the adapter's callback)
AdapterFailed(ok) == ~ok
\* hasMany payloads taken for granted
CollectionsAssumed(assoc) == FALSE
\* If no associations were used, run after
NoCollections(assoc) == Len(Keys(assoc.collections)) = 0

\* the callback of the adapter's create; the adapter has written the row
\* when it calls back without an error
AdapterDone(ok) ==
  /\ pc = "adapter"
  /\ raised' = IF ok THEN raised ELSE Append(raised, Err("adapter", "", ""))
  /\ LET row == Set(valuesObject.values, PrimaryKey, Num(nextPk))
         vals == Unserialize(row)
     IN /\ rows' = IF ok THEN rows \cup {Row(Identity, nextPk, "create", row)}
                   ELSE rows
        /\ nextPk' = IF ok THEN nextPk + 1 ELSE nextPk
        /\ IF AdapterFailed(ok)
             THEN /\ delivered' = Append(delivered,
                       Delivery(Err("adapter", "", GlobalId), Undef))
                  /\ pc' = "done"
                  /\ UNCHANGED <<created, calls>>
             ELSE /\ created' = vals
                  /\ IF NoCollections(valuesObject.associations)
                       THEN /\ calls' = Append(calls, AfterCreateCall(vals))
                            /\ pc' = "afterCreate"
                       ELSE /\ calls' = Append(calls,
                                 LinkCall(valuesObject.associations.collections))
                            /\ pc' = "link"
                  /\ UNCHANGED delivered
  /\ UNCHANGED <<onDone, metaContainer, input, valuesObject, pending, completed,
                 eachDone>>
  /\ UNCHANGED tvars

\* the linker's error ignored
LinkErrorIgnored(ok) == FALSE
\* if (err) return cb(err)          (the callback of nestedOperations.create)
LinkFailed(ok) == ~ok

\* the callback of nestedOperations.create
LinkDone(ok) ==
  /\ pc = "link"
  /\ raised' = IF ok THEN raised ELSE Append(raised, Err("link", "", ""))
  /\ IF LinkFailed(ok)
       THEN /\ delivered' = Append(delivered, Delivery(Err("link", "", ""), Undef))
            /\ pc' = "done"
            /\ UNCHANGED calls
       ELSE /\ calls' = Append(calls, AfterCreateCall(created))
            /\ pc' = "afterCreate"
            /\ UNCHANGED delivered
  /\ UNCHANGED <<onDone, metaContainer, input, valuesObject, pending, completed,
                 eachDone, created, rows, nextPk>>
  /\ UNCHANGED tvars

\* the after-create hook's error ignored
AfterErrorIgnored(ok) == FALSE
\* if (err) return cb(err)          (the callback of callbacks.afterCreate)
AfterFailed(ok) == ~ok

\* the callback of callbacks.afterCreate, in after(values)
AfterCreateDone(ok) ==
  /\ pc = "afterCreate"
  /\ raised' = IF ok THEN raised ELSE Append(raised, Err("afterCreate", "", ""))
  /\ IF AfterFailed(ok)
       THEN delivered' = Append(delivered,
              Delivery(Err("afterCreate", "", ""), Undef))
       ELSE delivered' = Append(delivered, Delivery(NoErr, Model(created)))
  /\ pc' = "done"
  /\ UNCHANGED <<onDone, metaContainer, input, valuesObject, pending, completed,
                 eachDone, created, calls, rows, nextPk>>
  /\ UNCHANGED tvars

\* ------------------------------------------------------------------------
\* The create pipeline: one call on the collection
\* ------------------------------------------------------------------------
NoAssociations == [models |-> Obj(<<>>), collections |-> Obj(<<>>)]

TransformerIdle ==
  /\ tpc = "idle"
  /\ tin = Undef
  /\ tmode = "undefined"
  /\ tser = Undef
  /\ tout = Undef

PipelineIdle ==
  /\ pc = "start"
  /\ onDone = "none"
  /\ metaContainer = "undefined"
  /\ input = Undef
  /\ valuesObject = [values |-> Undef, associations |-> NoAssociations]
  /\ pending = {}
  /\ completed = 0
  /\ eachDone = FALSE
  /\ created = Undef
  /\ calls = <<>>
  /\ raised = <<>>
  /\ delivered = <<>>
  /\ rows = {}
  /\ nextPk = 1

\* the collection after bootstrap, before the call
Init ==
  /\ attributes = CollectionAttributes
  /\ transformations = Initialize(CollectionAttributes)
  /\ TransformerIdle
  /\ PipelineIdle

Next ==
  \/ \E nameGiven \in BOOLEAN, kinds \in [BelongsToAttrs -> PayloadKinds],
        itemsGiven \in BOOLEAN, cbGiven \in BOOLEAN, meta \in Contexts :
       Create(nameGiven, kinds, itemsGiven, cbGiven, meta)
  \/ ExecHandle
  \/ \E item \in BelongsToAttrs, ok \in BOOLEAN : BelongsToDone(item, ok)
  \/ \E ok \in BOOLEAN : ValidateDone(ok)
  \/ \E ok \in BOOLEAN : BeforeCreateDone(ok)
  \/ \E ok \in BOOLEAN : AdapterDone(ok)
  \/ \E ok \in BOOLEAN : LinkDone(ok)
  \/ \E ok \in BOOLEAN : AfterCreateDone(ok)

Spec == Init /\ [][Next]_vars


\* the collaborators and the adapter call back: every callback that is due
\* is eventually made
Callbacks ==
  \/ \E item \in BelongsToAttrs, ok \in BOOLEAN : BelongsToDone(item, ok)
  \/ \E ok \in BOOLEAN : ValidateDone(ok)
  \/ \E ok \in BOOLEAN : BeforeCreateDone(ok)
  \/ \E ok \in BOOLEAN : AdapterDone(ok)
  \/ \E ok \in BOOLEAN : LinkDone(ok)
  \/ \E ok \in BOOLEAN : AfterCreateDone(ok)

SpecLive == Init /\ [][Next]_vars /\ WF_vars(Callbacks)

\* ------------------------------------------------------------------------
\* Properties of the create pipeline
\* ------------------------------------------------------------------------
Targets == {BelongsToPool[i].model : i \in 1..NumBelongsTo}
TargetOf(item) == DeclOf(CollectionAttributes, item).model
ColumnFor(item) == ColumnOfDecl(item, DeclOf(CollectionAttributes, item))
HookCalled(op) == \E i \in 1..Len(calls) : calls[i].to = "hooks" /\ calls[i].op = op
AdapterCalled == \E i \in 1..Len(calls) : calls[i].to = "adapter"
Raised(step) == \E i \in 1..Len(raised) : raised[i].step = step
ParentRows == {r \in rows : r.coll = Identity}
DeliveredOnly(err) == delivered = <<Delivery(err, Undef)>>

\* C1: with a completion callback, onDone is invoked exactly once, with an
\* error and no model or with no error and a model; never twice, never both.
C1_WellFormed ==
  /\ Len(delivered) <= 1
  /\ \A i \in 1..Len(delivered) :
       \/ delivered[i].err # NoErr /\ delivered[i].model = Undef
       \/ delivered[i].err = NoErr /\ delivered[i].model.t = "model"
C1_OnDoneExactlyOnce ==
  /\ [](C1_WellFormed)
  /\ (onDone = "fn") ~> (Len(delivered) = 1)
\* a belongsTo failure was delivered and every other resolution has ended
C1_Witness ==
  /\ pc = "done"
  /\ Len(delivered) = 1
  /\ Len(raised) = 2
  /\ pending = {}

\* C2: validation never begins while no resolution has failed and one is
\* still in flight; after a failed resolution, validation, the before-create
\* hook and the adapter write never begin.
C2_ValidationAfterBelongsTo ==
  /\ HookCalled("validate") => ~(~Raised("belongsTo") /\ pending # {})
  /\ Raised("belongsTo") =>
       ~HookCalled("validate") /\ ~HookCalled("beforeCreate") /\ ~AdapterCalled
\* validation has begun after two resolutions succeeded
C2_Witness ==
  /\ HookCalled("validate")
  /\ Cardinality({r \in rows : r.coll \in Targets}) = 2

\* C3 as stated: after a belongsTo failure was delivered the adapter create
\* is never invoked and no row created by another belongsTo resolution of
\* the call exists in storage.
C3_ZeroRowsWritten ==
  (Len(delivered) >= 1 /\ delivered[1].err.step = "belongsTo") =>
    /\ ~AdapterCalled
    /\ \A r \in rows : ~(r.coll \in Targets /\ r.op = "create")
\* C3 amended: after a belongsTo failure was delivered the adapter create is
\* never invoked and no parent row exists; the rows written by the
\* resolutions that succeeded stay in storage.
C3_NoParentWrite ==
  (Len(delivered) >= 1 /\ delivered[1].err.step = "belongsTo") =>
    /\ ~AdapterCalled
    /\ ParentRows = {}
    /\ \A i \in 1..Len(calls) :
         (/\ calls[i].to \in Targets
          /\ calls[i].item \notin pending
          /\ \A j \in 1..Len(raised) : raised[j].item # calls[i].item)
         => \E r \in rows : r.coll = calls[i].to
\* one resolution failed, another one wrote its row
C3_Witness ==
  /\ Len(delivered) = 1
  /\ delivered[1].err.step = "belongsTo"
  /\ pending = {}
  /\ \E r \in rows : r.op = "create"

\* C4: validation, then the before-create hook, then the adapter write; a
\* failed validation skips the hook, and a failure of either means no adapter
\* create and the error delivered.
C4_BeforeHooksInOrder ==
  /\ \A i \in 1..Len(calls) :
       (calls[i].to = "hooks" /\ calls[i].op = "beforeCreate")
       => \E j \in 1..(i - 1) : calls[j].to = "hooks" /\ calls[j].op = "validate"
  /\ \A i \in 1..Len(calls) :
       calls[i].to = "adapter"
       => \E j \in 1..(i - 1) : calls[j].to = "hooks" /\ calls[j].op = "beforeCreate"
  /\ Raised("validate") =>
       /\ ~HookCalled("beforeCreate")
       /\ ~AdapterCalled
       /\ DeliveredOnly(Err("validate", "", ""))
  /\ Raised("beforeCreate") =>
       /\ ~AdapterCalled
       /\ DeliveredOnly(Err("beforeCreate", "", ""))
\* validation rejected the values of a call
C4_Witness == pc = "done" /\ Raised("validate")

\* C5: when the after-create hook rejects, the caller gets that error and no
\* model, the parent row stays, and the adapter is asked for nothing but the
\* create.
C5_AfterHookNoRollback ==
  /\ Raised("afterCreate") => DeliveredOnly(Err("afterCreate", "", ""))
  /\ created # Undef => ParentRows # {}
  /\ \A i \in 1..Len(calls) : calls[i].to = "adapter" => calls[i].op = "create"
\* the after-create hook rejected
C5_Witness == pc = "done" /\ Raised("afterCreate") /\ ParentRows # {}

\* C6: when hasMany linkage fails, the error is delivered, the parent row
\* stays, and neither the after-create hook nor hydration runs.
C6_LinkFailure ==
  Raised("link") =>
    /\ DeliveredOnly(Err("link", "", ""))
    /\ ParentRows # {}
    /\ ~HookCalled("afterCreate")
\* the linker reported a failure
C6_Witness == pc = "done" /\ Raised("link") /\ ParentRows # {}

\* C7: every call to a sibling collection, to the nested linker and to the
\* adapter receives the context value of the create call.
C7_ContextForwarded ==
  \A i \in 1..Len(calls) :
    calls[i].to \in Targets \cup {"nestedOperations", "adapter"}
    => calls[i].ctx = metaContainer

\* C8: for an object payload without primary key, the target's create is
\* issued and has written its row before the adapter create, and the value
\* submitted and persisted under the attribute's column is that row's key.
C8_ForeignKeyIsNewPk ==
  \A i \in 1..Len(calls) : \A item \in BelongsToAttrs :
    (/\ calls[i].to = "adapter"
     /\ Get(input, item).t = "obj"
     /\ ~Has(Get(input, item), PrimaryKey))
    => /\ \E j \in 1..(i - 1) :
            /\ calls[j].to = TargetOf(item)
            /\ calls[j].op = "create"
            /\ calls[j].item = item
       /\ \E r \in rows :
            /\ r.coll = TargetOf(item)
            /\ r.op = "create"
            /\ Get(calls[i].vals, ColumnFor(item)) = Num(r.pk)
            /\ \A p \in ParentRows : Get(p.vals, ColumnFor(item)) = Num(r.pk)
\* a parent row written after two targets were created
C8_Witness ==
  /\ ParentRows # {}
  /\ \A item \in BelongsToAttrs :
       Get(input, item).t = "obj" /\ ~Has(Get(input, item), PrimaryKey)

\* C9: without a completion callback nothing of the pipeline has run: no
\* default applied, no resolution dispatched, no hook, no adapter call.
C9_LazyHandleIdle ==
  (onDone = "none" /\ pc # "start") =>
    /\ pc = "deferred"
    /\ valuesObject.values = input
    /\ valuesObject.associations = NoAssociations
    /\ pending = {}
    /\ calls = <<>>
    /\ raised = <<>>
    /\ delivered = <<>>
    /\ rows = {}
\* a handle for values that lack a default and carry a belongsTo payload
C9_Witness ==
  /\ pc = "deferred"
  /\ ~Has(input, "name")
  /\ \E item \in BelongsToAttrs : Get(input, item).t = "obj"


\* the error as create hands it on: the adapter's error is given the
\* collection's identity, every other error is passed as it is
Annotated(err) ==
  IF err.step = "adapter" THEN [err EXCEPT !.model = GlobalId] ELSE err

C15_FirstErrorOnly ==
  Len(raised) >= 2 =>
    /\ raised[1].step = "belongsTo"
    /\ delivered = <<Delivery(raised[1], Undef)>>
\* two resolutions of one call have failed, one after the other
C15_Witness ==
  /\ Len(raised) = 2
  /\ raised[1].item # raised[2].item
  /\ raised[2].step = "belongsTo"

\* the calls made on the target collection for one belongsTo attribute
TargetCalls(item) ==
  SelectSeq(calls, LAMBDA c : c.to \in Targets /\ c.item = item)
Dispatched == pc \notin {"start", "deferred"}

\* C17: an object payload that has the target's primary-key field
\* gets an upsert on that key, an object payload without the field gets a
\* plain create, and a payload that is no object gets no call on the target.
C17_UpsertWhenKeyField ==
  Dispatched =>
    \A item \in BelongsToAttrs :
      LET payload == Get(input, item)
      IN /\ (payload.t = "obj" /\ Has(payload, PrimaryKey)) =>
              \E i \in 1..Len(calls) :
                /\ calls[i].to = TargetOf(item)
                /\ calls[i].item = item
                /\ calls[i].op = "findOrCreate"
         /\ (payload.t = "obj" /\ ~Has(payload, PrimaryKey)) =>
              \E i \in 1..Len(calls) :
                /\ calls[i].to = TargetOf(item)
                /\ calls[i].item = item
                /\ calls[i].op = "create"
         /\ payload.t # "obj" => TargetCalls(item) = <<>>

LinkCalled == \E i \in 1..Len(calls) : calls[i].to = "nestedOperations"

\* C18: the linker is invoked only after the adapter has written the parent
\* row and only when the input had a hasMany payload; the after-create hook
\* begins only after the linker has completed, or right after the reverse
\* transformation when there is no hasMany payload; the model is delivered
\* only after the after-create hook has succeeded.
C18_LinkThenAfterThenModel ==
  /\ LinkCalled =>
       /\ Has(input, "items")
       /\ ParentRows # {}
       /\ ~Raised("adapter")
       /\ pc \in {"link", "afterCreate", "done"}
  /\ HookCalled("afterCreate") =>
       /\ ParentRows # {}
       /\ created # Undef
       /\ LinkCalled = Has(input, "items")
       /\ ~Raised("link")
       /\ pc \in {"afterCreate", "done"}
       /\ \A i, j \in 1..Len(calls) :
            (calls[i].to = "nestedOperations" /\ calls[j].op = "afterCreate")
            => i < j
  /\ \A i \in 1..Len(delivered) :
       delivered[i].model # Undef =>
         /\ HookCalled("afterCreate")
         /\ ~Raised("afterCreate")
         /\ pc = "done"
\* a model was delivered after the linker and the after-create hook ran
C18_Witness ==
  /\ LinkCalled
  /\ Len(delivered) = 1
  /\ delivered[1].model.t = "model"

CallsTo(to, op) == {i \in 1..Len(calls) : calls[i].to = to /\ calls[i].op = op}

\* C19: within one create call validation, the before-create hook, the
\* adapter create, the linker and the after-create hook are each invoked at
\* most once, and each belongsTo attribute gets at most one create or upsert
\* on its target.
C19_AtMostOnce ==
  /\ \A op \in {"validate", "beforeCreate", "afterCreate"} :
       Cardinality(CallsTo("hooks", op)) <= 1
  /\ Cardinality({i \in 1..Len(calls) : calls[i].to = "adapter"}) <= 1
  /\ Cardinality({i \in 1..Len(calls) : calls[i].to = "nestedOperations"}) <= 1
  /\ \A item \in BelongsToAttrs : Len(TargetCalls(item)) <= 1
\* a call went through every step, with a target call for every belongsTo
\* attribute
C19_Witness ==
  /\ pc = "done"
  /\ raised = <<>>
  /\ LinkCalled
  /\ \A item \in BelongsToAttrs : Len(TargetCalls(item)) = 1
  /\ \A op \in {"validate", "beforeCreate", "afterCreate"} :
       Cardinality(CallsTo("hooks", op)) = 1

\* ------------------------------------------------------------------------
\* The transformer on its own: build, serialize, unserialize
\* ------------------------------------------------------------------------
\* number of attributes of the collections the transformer is built for
MaxAttrs == 2
AttrPool == <<"a", "b", "c">>
ColumnPool == {"a", "b", "x", "y"}
TDeclarations ==
  {TypeDecl("string"), Decl("str", "string", "none", "", "", "", FALSE, Undef),
   Decl("obj", "string", "bad", "", "", "", FALSE, Undef)}
  \cup {ColumnDecl("string", c) : c \in ColumnPool}
TValues == {Num(1), Str("s")}

\* the attribute declarations a collection can be given
TAttributeSets ==
  {[i \in 1..MaxAttrs |-> AD(AttrPool[i], ds[i])] :
     ds \in [1..MaxAttrs -> TDeclarations]}
\* the fully-populated records of a collection
TRecords(decls) ==
  {Obj([i \in 1..Len(decls) |-> KV(decls[i].k, vs[i])]) :
     vs \in [1..Len(decls) -> TValues]}

\* new Transformation(attributes): the states after a construction that did
\* not throw
InitT ==
  /\ attributes \in {decls \in TAttributeSets : ~InitializeThrows(decls)}
  /\ transformations = Initialize(attributes)
  /\ tpc = "ready"
  /\ tin \in TRecords(attributes)
  /\ tmode \in {"undefined", "schema"}
  /\ tser = Undef
  /\ tout = Undef
  /\ PipelineIdle

\* transformer.serialize(tin, tmode)
TSerialize ==
  /\ tpc = "ready"
  /\ tser' = Serialize(tin, tmode)
  /\ transformations' = MapAfterSerialize(transformations, tin)
  /\ tpc' = "serialized"
  /\ UNCHANGED <<attributes, tin, tmode, tout>>
  /\ UNCHANGED cvars

\* transformer.unserialize(tser)
TUnserialize ==
  /\ tpc = "serialized"
  /\ tout' = Unserialize(tser)
  /\ tpc' = "unserialized"
  /\ UNCHANGED <<attributes, transformations, tin, tmode, tser>>
  /\ UNCHANGED cvars

NextT == TSerialize \/ TUnserialize

SpecT == InitT /\ [][NextT]_vars

\* ------------------------------------------------------------------------
\* The transformer on criteria, where trees and nested values
\* ------------------------------------------------------------------------
\* the declarations of a collection with plain, json and date attributes;
\* "a" may be stored under the name of attribute "b" (a chain: a -> b, b -> y)
WAttributeSets ==
  {<<AD("a", da), AD("b", db), AD("meta", dm), AD("born", dd)>> \o dor :
     da \in {TypeDecl("string"), ColumnDecl("string", "x"), ColumnDecl("string", "b")},
     db \in {TypeDecl("string"), ColumnDecl("string", "y")},
     dm \in {TypeDecl("json"), Decl("str", "json", "none", "", "", "", FALSE, Undef),
             ColumnDecl("json", "data")},
     dd \in {TypeDecl("date"), ColumnDecl("datetime", "born_at")},
     dor \in {<<>>, <<AD("or", ColumnDecl("string", "or_col"))>>}}

List(elems) == Arr([i \in 1..Len(elems) |-> KV(ToString(i - 1), elems[i])])

\* where trees: leaves, nested operators, and/or nodes, a json payload whose
\* inner keys are attribute names, dates, keys that are no attribute
WhereTrees ==
  {Obj(<<>>),
   Obj(<<KV("a", Str("s")), KV("b", Num(2))>>),
   Obj(<<KV("a", Obj(<<KV("contains", Str("s"))>>)), KV("z", Num(1))>>),
   Obj(<<KV("or", List(<<Obj(<<KV("a", Num(1))>>), Obj(<<KV("b", Num(2))>>)>>))>>),
   Obj(<<KV("or", List(<<
           Obj(<<KV("and", List(<<Obj(<<KV("a", Num(1))>>),
                                  Obj(<<KV("z", Str("s"))>>)>>))>>),
           Obj(<<KV("b", Num(2))>>)>>))>>),
   Obj(<<KV("meta", Obj(<<KV("a", Num(1)), KV("b", Str("s"))>>))>>),
   Obj(<<KV("b", Num(1)),
         KV("or", List(<<Obj(<<KV("meta", Obj(<<KV("a", Num(1)), KV("b", Num(2))>>))>>),
                         Obj(<<KV("a", Obj(<<KV("meta", Obj(<<KV("b", Num(1))>>))>>))>>)>>))>>),
   Obj(<<KV("meta", Obj(<<KV("a", Num(1))>>)),
         KV("or", List(<<Obj(<<KV("a", Num(1))>>)>>))>>),
   Obj(<<KV("and", List(<<Obj(<<KV("a", Num(1))>>)>>)),
         KV("meta", Obj(<<KV("a", Num(1))>>))>>),
   Obj(<<KV("born", Str("2020-01-01")), KV("a", Str("s"))>>),
   Obj(<<KV("born", Obj(<<KV(">", Str("2020-01-01"))>>))>>),
   Obj(<<KV("note", Str("hello")), KV("born", Str("2020-01-01"))>>),
   Obj(<<KV("born", Str("2020-01-01")), KV("note", Str("hello"))>>),
   Obj(<<KV("extra", Obj(<<KV("a", Num(1))>>)), KV("meta", Obj(<<KV("a", Num(1))>>))>>),
   Obj(<<KV("meta", Obj(<<KV("a", Num(1))>>)), KV("extra", Obj(<<KV("a", Num(1))>>))>>)}

\* what a criteria object carries besides its where
CriteriaRests ==
  {<<>>,
   <<KV("select", List(<<Str("a"), Str("z"), Str("b")>>)),
     KV("sort", Obj(<<KV("a", Num(1)), KV("b", Num(-1))>>))>>,
   <<KV("sort", Obj(<<KV("z", Num(1)), KV("b", Num(-1)), KV("a", Num(1))>>)),
     KV("sum", List(<<Str("a")>>)),
     KV("average", List(<<Str("b"), Str("a")>>)),
     KV("min", List(<<Str("z")>>)),
     KV("max", List(<<Str("a"), Str("a")>>)),
     KV("groupBy", List(<<Str("b"), Str("z")>>))>>,
   <<KV("sort", Str("a ASC")), KV("select", List(<<Str("meta"), Str("born")>>))>>}

\* the inputs of serialize: criteria objects, bare value trees, a bare name
WInputs ==
  {Obj(<<KV("where", w)>> \o rest) : w \in WhereTrees, rest \in CriteriaRests}
  \cup WhereTrees
  \cup {Str("a"), Str("z")}

InitW ==
  /\ attributes \in WAttributeSets
  /\ transformations = Initialize(attributes)
  /\ tpc = "ready"
  /\ tin \in WInputs
  /\ tmode \in {"undefined", "schema"}
  /\ tser = Undef
  /\ tout = Undef
  /\ PipelineIdle

SpecW == InitW /\ [][NextT]_vars

\* ------------------------------------------------------------------------
\* Properties of the transformer
\* ------------------------------------------------------------------------
\* C10: for every attribute map that can be built and every fully-populated
\* record of non-date, non-json primitives, unserialize(serialize(record)) in
\* value mode has exactly the keys and values of the record.
C10_RoundTrip ==
  (tpc = "unserialized" /\ tmode = "undefined") => SameObject(tout, tin)



\* ------------------------------------------------------------------------
\* The collection's transformer used while a create call is under way
\* ------------------------------------------------------------------------
\* the calls other callers make on the collection's transformer: a criteria
\* object, a values object in schema and in value mode, an attribute name
MixCalls ==
  {[values |-> Obj(<<KV("where", Obj(<<KV(BelongsToPool[1].attr, Num(5))>>)),
                     KV("sort", Obj(<<KV(BelongsToPool[1].attr, Num(1))>>))>>),
    behavior |-> "undefined"],
   [values |-> Obj(<<KV(BelongsToPool[1].attr, Num(5)), KV("name", Str("n"))>>),
    behavior |-> "schema"],
   [values |-> Obj(<<KV(BelongsToPool[1].attr, Num(5)), KV("name", Str("n"))>>),
    behavior |-> "undefined"],
   [values |-> Str(BelongsToPool[1].attr), behavior |-> "undefined"]}

\* a caller gets a call of serialize ready
TCall(values, behavior) ==
  /\ tpc \in {"idle", "serialized", "unserialized"}
  /\ tin' = values
  /\ tmode' = behavior
  /\ tser' = Undef
  /\ tout' = Undef
  /\ tpc' = "ready"
  /\ UNCHANGED <<attributes, transformations>>
  /\ UNCHANGED cvars

NextMix ==
  \/ Next
  \/ \E call \in MixCalls : TCall(call.values, call.behavior)
  \/ TSerialize
  \/ TUnserialize

SpecMix == Init /\ [][NextMix]_vars

ColumnName(name) == IF Has(transformations, name) THEN Column(name) ELSE name

Serialized == tpc \in {"serialized", "unserialized"}
IsCriteria(x) == x.t = "obj" /\ Has(x, "where")

\* every entry of a name list is replaced by the name it is stored under
ListRenamed(before, after) ==
  /\ after.t = "arr"
  /\ Len(after.o) = Len(before.o)
  /\ \A i \in 1..Len(before.o) :
       after.o[i] = KV(before.o[i].k, Str(ColumnName(before.o[i].v.s)))

\* every sort key is replaced by the name it is stored under and keeps its
\* direction
SortRenamed(before, after) ==
  /\ after.t = "obj"
  /\ KeySet(after) = {ColumnName(key) : key \in KeySet(before)}
  /\ Len(after.o) = Cardinality(KeySet(after))
  /\ \A key \in KeySet(before) : Get(after, ColumnName(key)) = Get(before, key)

\* C11: in criteria mode serialize replaces every mapped attribute name in
\* the select, sum, average, min, max and groupBy lists and every mapped key
\* of the sort object by its column name, each renamed sort key keeps its
\* value, and unmapped names stay as they are.
C11_CriteriaRenamed ==
  (Serialized /\ tmode = "undefined" /\ IsCriteria(tin)) =>
     /\ \A i \in 1..Len(ListFields) :
          Get(tin, ListFields[i]).t = "arr" =>
            ListRenamed(Get(tin, ListFields[i]), Get(tser, ListFields[i]))
     /\ Get(tin, "sort").t = "obj" => SortRenamed(Get(tin, "sort"), Get(tser, "sort"))

\* the attribute that governs a key: its own declaration, else the declaration
\* of the attribute its name maps to, else the attribute of the enclosing
\* object
Governing(key, enclosing) ==
  IF DeclOf(attributes, key) # NoDecl THEN DeclOf(attributes, key)
  ELSE IF Has(transformations, key) /\ DeclOf(attributes, Column(key)) # NoDecl
    THEN DeclOf(attributes, Column(key))
  ELSE enclosing

\* the tree serialize is to produce: every key is judged by its own governing
\* attribute and all keys of an object are renamed at once
RECURSIVE Intended(_, _)
Intended(x, enclosing) ==
  IF x.t \notin {"obj", "arr"} THEN x
  ELSE [x EXCEPT !.o = [i \in 1..Len(x.o) |->
         LET key == x.o[i].k
             val == x.o[i].v
             gov == Governing(key, enclosing)
         IN IF val.t = "arr" /\ key \in {"or", "and"}
              THEN KV(key, Intended(val, gov))
            ELSE IF val.t = "obj" /\ TypeOf(gov) # "json"
              THEN KV(ColumnName(key), Intended(val, gov))
            ELSE IF val.t = "str" /\ TypeOf(gov) \in {"date", "datetime"}
              THEN KV(ColumnName(key), DateOf(val.s))
            ELSE KV(ColumnName(key), val)]]

\* two trees with the same keys at every level, whatever the leaves hold
RECURSIVE SameShape(_, _)
SameShape(x, y) ==
  IF x.t \in {"obj", "arr"} \/ y.t \in {"obj", "arr"}
    THEN /\ x.t = y.t
         /\ KeySet(x) = KeySet(y)
         /\ Len(x.o) = Cardinality(KeySet(x))
         /\ Len(y.o) = Cardinality(KeySet(y))
         /\ \A key \in KeySet(x) : SameShape(Get(x, key), Get(y, key))
    ELSE TRUE

\* a tree with an and/or node somewhere
RECURSIVE HasAndOr(_)
HasAndOr(x) ==
  /\ x.t \in {"obj", "arr"}
  /\ \E i \in 1..Len(x.o) :
       \/ x.o[i].k \in {"or", "and"} /\ x.o[i].v.t = "arr"
       \/ HasAndOr(x.o[i].v)

\* C12: in a where tree with and/or nodes at any depth serialize leaves the
\* and/or keys as they are and renames every mapped attribute name in every
\* child tree; only attribute names and the keys of nested objects that are
\* not json typed are renamed.
C12_AndOrTraversed ==
  (Serialized /\ tmode = "undefined" /\ IsCriteria(tin)
     /\ HasAndOr(Get(tin, "where"))) =>
       SameShape(Get(tser, "where"), Intended(Get(tin, "where"), NoDecl))

\* the value under every json-typed attribute of a tree is in the result as
\* it was, under the attribute's name or column, at every level that is still
\* there
RECURSIVE JsonKept(_, _)
JsonKept(before, after) ==
  \A i \in 1..Len(before.o) :
    LET key == before.o[i].k
        val == before.o[i].v
        now == IF Has(after, ColumnName(key)) THEN Get(after, ColumnName(key))
               ELSE Get(after, key)
    IN IF TypeOf(DeclOf(attributes, key)) = "json"
         THEN now = val
       ELSE (val.t \in {"obj", "arr"} /\ now.t = val.t) => JsonKept(val, now)

\* C13: whatever the input of serialize, the value of a json-typed attribute
\* is not looked into: after serialize it has the keys and values it had,
\* also when its keys are names of mapped attributes; only the attribute's
\* own key is renamed.
C13_JsonUntouched ==
  (Serialized /\ tin.t = "obj") => JsonKept(tin, tser)

\* a json value whose key "a" is a mapped attribute name has been serialized
\* and stored under its column
C13_Witness ==
  /\ Serialized
  /\ tmode = "undefined"
  /\ tin.t = "obj"
  /\ Has(transformations, "a")
  /\ Has(Get(tin, "meta"), "a")
  /\ Get(tser, "data") = Get(tin, "meta")

\* the object serialize walks through: the where of a criteria object, else
\* the input itself
Walked(x) == IF IsCriteria(x) THEN Get(x, "where") ELSE x

\* every text is a date in the result exactly when the attribute governing
\* its key is date typed, every nested object that is not json typed has
\* been walked through in the same way, and every other value is there as it
\* was, under the name its key is stored under
RECURSIVE DatesAsGoverned(_, _, _)
DatesAsGoverned(before, after, enclosing) ==
  \A i \in 1..Len(before.o) :
    LET key == before.o[i].k
        val == before.o[i].v
        gov == Governing(key, enclosing)
        andOr == val.t = "arr" /\ key \in {"or", "and"}
        now == IF andOr THEN Get(after, key) ELSE Get(after, ColumnName(key))
    IN IF val.t = "str"
         THEN IF TypeOf(gov) \in {"date", "datetime"}
                THEN now = DateOf(val.s)
                ELSE now = val
       ELSE IF andOr \/ (val.t = "obj" /\ TypeOf(gov) # "json")
         THEN now.t = val.t /\ DatesAsGoverned(val, now, gov)
       ELSE now = val

\* C20: serialize makes a date of a text only when the attribute governing
\* its key is date or datetime typed, that attribute being the key's own
\* declaration, else the attribute its name maps to, else the attribute of
\* the enclosing nested object; a text under a top-level key with no
\* attribute stays as it is and a nested object under such a key is still
\* walked through, whichever sibling keys came before it.
C20_DateOnlyWhenGoverned ==
  (Serialized /\ tmode = "undefined" /\ tin.t = "obj") =>
    DatesAsGoverned(Walked(tin), Walked(tser), NoDecl)

====
